---- MODULE Spec2Model ----
(***************************************************************************)
(* Model of the two image organisers of image_manager:                     *)
(*   picman.py              search_images, get_image_metadata,             *)
(*                          copy_images_by_date (flat mode and             *)
(*                          date-hierarchy mode), ImageOrganizerGUI        *)
(*   image-organizer-v3.py  search_images, get_image_metadata,             *)
(*                          copy_images_by_date, ImageOrganizerGUI         *)
(* The file system is one mapping from paths to files; a path is a         *)
(* directory (sequence of components) and a file name.                     *)
(***************************************************************************)
EXTENDS Integers, Sequences, FiniteSets, TLC

\* ---------------------------------------------------------------- bounds
MaxImages == 3
MaxRuns == 2
\* calls of os.makedirs and shutil.copy2 that fail although the file tree
\* lets them succeed (permissions, a full disk, an I/O error), per behaviour
MaxFaults == 1

\* ------------------------------------------------------- python helpers
None == [none |-> TRUE]

\* A key of a Python dict: ints and strs never compare equal.
IntKey(n) == [type |-> "int", int |-> n, str |-> ""]
StrKey(s) == [type |-> "str", int |-> 0, str |-> s]

\* PIL.ExifTags.TAGS (numeric tag id -> tag name), the entries that matter.
DateTimeOriginalId == 36867
TAGS == [k \in {271, 306, DateTimeOriginalId} |->
           IF k = 271 THEN "Make"
           ELSE IF k = 306 THEN "DateTime" ELSE "DateTimeOriginal"]

\* f"{n:02d}"
Pad2(n) == IF n < 10 THEN "0" \o ToString(n) ELSE ToString(n)

\* os.path.join(dir, filename), os.path.basename
join(dir, filename) == [dir |-> dir, file |-> filename]
basename(path) == path.file

\* s[k] and s[from:] of a str (k, from count from 1)
CharAt(s, k) == SubSeq(s, k, k)
From(s, from) == SubSeq(s, from, Len(s))

\* s.rfind('.'), counted from 1: 0 when s has no dot
RECURSIVE rfind_dot(_, _)
rfind_dot(s, n) ==
    IF n = 0 THEN 0 ELSE IF CharAt(s, n) = "." THEN n ELSE rfind_dot(s, n - 1)

\* os.path.splitext of a file name: the extension starts at the last dot,
\* unless only dots come before it
splitext(filename) ==
    LET dotIndex == rfind_dot(filename, Len(filename))
    IN IF dotIndex > 0 /\ \E k \in 1..(dotIndex - 1) : CharAt(filename, k) # "."
       THEN <<SubSeq(filename, 1, dotIndex - 1), From(filename, dotIndex)>>
       ELSE <<filename, "">>

\* f"{name}_{counter}{ext}"
Suffixed(name, counter, ext) == name \o "_" \o ToString(counter) \o ext
\* f"copy_{name}{ext}"
CopyNamed(name, ext) == "copy_" \o name \o ext

\* os.path.exists on the modelled file system
exists(fsys, path) == path \in DOMAIN fsys

\* ------------------------------------------------------------ datetime
IsLeap(y) == (y % 4 = 0 /\ y % 100 # 0) \/ y % 400 = 0
DaysIn(y, m) == IF m = 2 THEN (IF IsLeap(y) THEN 29 ELSE 28)
                ELSE IF m \in {4, 6, 9, 11} THEN 30 ELSE 31

\* A string is the sequence of its code points: "2020:03:05 10:30:00" is
\* <<50, 48, 50, 48, 58, 48, 51, 58, 48, 53, 32, 49, 48, 58, 51, 48, 58, 48, 48>>.
\* An EXIF value is a str or something else (bytes, a number).
Str(chars) == [type |-> "str", chars |-> chars]
Bytes(chars) == [type |-> "bytes", chars |-> chars]

Colon == 58
Blank == 32
Digit(n) == 48 + n
\* f"{n:02d}" and f"{n:04d}" as code points
Dec2(n) == <<Digit(n \div 10), Digit(n % 10)>>
Dec4(n) == <<Digit(n \div 1000), Digit((n \div 100) % 10)>> \o Dec2(n % 100)

\* str.isspace(), the \s of a str pattern
Whitespace ==
    (9..13) \cup (28..32) \cup {133, 160, 5760} \cup (8192..8202)
        \cup {8232, 8233, 8239, 8287, 12288}

\* a blank of the format is \s+: one or more whitespace characters
IsWhitespaceRun(t) == Len(t) >= 1 /\ \A n \in 1..Len(t) : t[n] \in Whitespace

\* the code points of the digits zero of Unicode's decimal-digit blocks
DigitBases ==
    { 48, 1632, 1776, 1984, 2406, 2534, 2662, 2790, 2918, 3046,
      3174, 3302, 3430, 3558, 3664, 3792, 3872, 4160, 4240, 6112,
      6160, 6470, 6608, 6784, 6800, 6992, 7088, 7232, 7248, 42528,
      43216, 43264, 43472, 43504, 43600, 44016, 65296, 66720, 68912, 69734,
      69872, 69942, 70096, 70384, 70736, 70864, 71248, 71360, 71472, 71904,
      72016, 72784, 73040, 73120, 92768, 92864, 93008, 120782, 120792, 120802,
      120812, 120822, 123200, 123632, 125264, 130032 }

\* the value of a decimal digit (the \d of a str pattern), -1 for any other
\* character
Decimal(c) ==
    IF \E base \in DigitBases : c \in base..(base + 9)
    THEN c - (CHOOSE base \in DigitBases : c \in base..(base + 9))
    ELSE -1

\* [lo-hi] of a pattern: ASCII digits only
InRange(c, lo, hi) == c \in Digit(lo)..Digit(hi)

\* \d\d\d\d
Re_Y(t) == Len(t) = 4 /\ \A n \in 1..4 : Decimal(t[n]) >= 0
\* 1[0-2]|0[1-9]|[1-9]
Re_m(t) ==
    \/ Len(t) = 2 /\ t[1] = Digit(1) /\ InRange(t[2], 0, 2)
    \/ Len(t) = 2 /\ t[1] = Digit(0) /\ InRange(t[2], 1, 9)
    \/ Len(t) = 1 /\ InRange(t[1], 1, 9)
\* 3[0-1]|[1-2]\d|0[1-9]|[1-9]| [1-9]
Re_d(t) ==
    \/ Len(t) = 2 /\ t[1] = Digit(3) /\ InRange(t[2], 0, 1)
    \/ Len(t) = 2 /\ InRange(t[1], 1, 2) /\ Decimal(t[2]) >= 0
    \/ Len(t) = 2 /\ t[1] = Digit(0) /\ InRange(t[2], 1, 9)
    \/ Len(t) = 1 /\ InRange(t[1], 1, 9)
    \/ Len(t) = 2 /\ t[1] = Blank /\ InRange(t[2], 1, 9)
\* 2[0-3]|[0-1]\d|\d
Re_H(t) ==
    \/ Len(t) = 2 /\ t[1] = Digit(2) /\ InRange(t[2], 0, 3)
    \/ Len(t) = 2 /\ InRange(t[1], 0, 1) /\ Decimal(t[2]) >= 0
    \/ Len(t) = 1 /\ Decimal(t[1]) >= 0
\* [0-5]\d|\d
Re_M(t) ==
    \/ Len(t) = 2 /\ InRange(t[1], 0, 5) /\ Decimal(t[2]) >= 0
    \/ Len(t) = 1 /\ Decimal(t[1]) >= 0
\* 6[0-1]|[0-5]\d|\d
Re_S(t) ==
    \/ Len(t) = 2 /\ t[1] = Digit(6) /\ InRange(t[2], 0, 1)
    \/ Len(t) = 2 /\ InRange(t[1], 0, 5) /\ Decimal(t[2]) >= 0
    \/ Len(t) = 1 /\ Decimal(t[1]) >= 0

\* int(t) for a matched field (a leading blank is dropped)
RECURSIVE int(_)
int(t) ==
    IF t = <<>> THEN 0
    ELSE IF Decimal(t[Len(t)]) < 0 THEN int(SubSeq(t, 1, Len(t) - 1))
    ELSE 10 * int(SubSeq(t, 1, Len(t) - 1)) + Decimal(t[Len(t)])

\* The ways the pattern of '%Y:%m:%d %H:%M:%S',
\*   (\d\d\d\d):(m):(d)\s+(H):(M):(S),
\* matches the whole of chars: the fields cut out of it.
Matches(chars) ==
    LET n == Len(chars)
        Cut(from, len) == SubSeq(chars, from, from + len - 1)
        At(pos) == IF pos \in 1..n THEN chars[pos] ELSE -1
    IN { f \in { [Y |-> Cut(1, 4),
                  m |-> Cut(6, w.m),
                  d |-> Cut(7 + w.m, w.d),
                  ws |-> Cut(7 + w.m + w.d, n - (w.m + w.d + w.H + w.M + w.S + 8)),
                  H |-> Cut(n - (w.H + w.M + w.S + 1), w.H),
                  M |-> Cut(n - (w.M + w.S), w.M),
                  S |-> Cut(n - w.S + 1, w.S),
                  colons |-> <<At(5), At(6 + w.m), At(n - (w.M + w.S + 1)), At(n - w.S)>>] :
                 w \in { v \in [m : 1..2, d : 1..2, H : 1..2, M : 1..2, S : 1..2] :
                            n - (v.m + v.d + v.H + v.M + v.S + 8) >= 1 } } :
           /\ f.colons = <<Colon, Colon, Colon, Colon>>
           /\ Re_Y(f.Y) /\ Re_m(f.m) /\ Re_d(f.d) /\ IsWhitespaceRun(f.ws)
           /\ Re_H(f.H) /\ Re_M(f.M) /\ Re_S(f.S) }

\* datetime(year, month, day, hour, minute, second) accepts the fields
ValidDateTime(f) ==
    /\ int(f.Y) >= 1
    /\ int(f.d) <= DaysIn(int(f.Y), int(f.m))
    /\ int(f.S) <= 59

\* datetime.strptime(s, '%Y:%m:%d %H:%M:%S') succeeds
strptime_ok(s) ==
    /\ s.type = "str"
    /\ \E f \in Matches(s.chars) : ValidDateTime(f)

\* datetime.strptime(...).date(): the time of day is dropped
strptime_date(s) ==
    LET f == CHOOSE g \in Matches(s.chars) : ValidDateTime(g)
    IN [year |-> int(f.Y), month |-> int(f.m), day |-> int(f.d)]

\* datetime.fromtimestamp(mtime).date(); an mtime is a broken-down local time
fromtimestamp_date(t) == [year |-> t.year, month |-> t.month, day |-> t.day]

\* ------------------------------------------------------ get_image_metadata
\* next((TAGS[k] for k in TAGS.keys() if TAGS[k] == 'DateTimeOriginal'), None)
date_time_original_tag ==
    IF \E k \in DOMAIN TAGS : TAGS[k] = "DateTimeOriginal"
    THEN StrKey("DateTimeOriginal") ELSE None

\* the key under which the tag is looked up, as main.py does: exif_data.get(36867)
ExifLookupKey_ById == IntKey(DateTimeOriginalId)

\* the key used by `date_time_original_tag in exif_data` / exif_data[...]
ExifLookupKey == date_time_original_tag

\* Result of get_image_metadata on file value f stored at image_path:
\* <<date or None, file name>>.
\*   f.decodable   Image.open succeeds
\*   f.exif_ok     img._getexif() does not raise
\*   f.exif        the mapping returned by _getexif() (empty for None or {})
get_image_metadata(f, image_path) ==
    IF ~f.decodable \/ ~f.exif_ok
    THEN <<None, basename(image_path)>>
    ELSE IF /\ DOMAIN f.exif # {}
            /\ ExifLookupKey # None
            /\ ExifLookupKey \in DOMAIN f.exif
         THEN IF strptime_ok(f.exif[ExifLookupKey])
              THEN <<strptime_date(f.exif[ExifLookupKey]), basename(image_path)>>
              ELSE <<None, basename(image_path)>>
         ELSE <<fromtimestamp_date(f.mtime), basename(image_path)>>


\* ------------------------------------------------------------ the world
Date1 == [year |-> 2020, month |-> 3, day |-> 5]
Date2 == [year |-> 2021, month |-> 7, day |-> 1]

MTime(d) == [year |-> d.year, month |-> d.month, day |-> d.day, hour |-> 23]

\* the string str(Y):m:d H:M:S with the given fields and blank
Joined(Y, m, d, ws, H, M, S) ==
    Str(Y \o <<Colon>> \o m \o <<Colon>> \o d \o ws \o H \o <<Colon>> \o M \o <<Colon>> \o S)
\* f"{Y:04d}:{m:02d}:{d:02d} {H:02d}:{M:02d}:{S:02d}"
Stamp(Y, m, d, H, M, S) ==
    Joined(Dec4(Y), Dec2(m), Dec2(d), <<Blank>>, Dec2(H), Dec2(M), Dec2(S))

\* "2020:03:05 10:30:00"
WellFormedStamp == Stamp(2020, 3, 5, 10, 30, 0)
\* "0000:00:00 00:00:00"
ZeroStamp == Stamp(0, 0, 0, 0, 0, 0)
\* "0000:00:00 00:00:00", "2020-03-05 10:30:00", "2020:03:05"
MalformedStamps ==
    { ZeroStamp,
      Str(Dec4(2020) \o <<45>> \o Dec2(3) \o <<45>> \o Dec2(5) \o <<Blank>>
            \o Dec2(10) \o <<Colon>> \o Dec2(30) \o <<Colon>> \o Dec2(0)),
      Str(Dec4(2020) \o <<Colon>> \o Dec2(3) \o <<Colon>> \o Dec2(5)) }

NoExif == [k \in {} |-> ZeroStamp]
ExifWith(stamp) == [k \in {IntKey(271), IntKey(DateTimeOriginalId)} |->
                      IF k = IntKey(271) THEN ZeroStamp ELSE stamp]

\* a file: content id, whether it decodes, its EXIF mapping, its mtime
File(id, decodable, exif_ok, exif, mtime) ==
    [id |-> id, decodable |-> decodable, exif_ok |-> exif_ok,
     exif |-> exif, mtime |-> mtime]

\* the directory everything lives in, a source tree and its two folders, and
\* a destination folder
Root == <<>>
Src == <<"src">>
Src1 == <<"src", "1">>
Src2 == <<"src", "2">>
Out == <<"out">>
\* the empty string of a tk.StringVar nothing was chosen for
Unset == <<"">>

\* The image files a source tree may hold.
SourceFiles ==
    ( join(Src1, "a.jpg")     :> File("s1", TRUE, TRUE, ExifWith(WellFormedStamp), MTime(Date2)) ) @@
    ( join(Src2, "a.jpg")     :> File("s2", TRUE, TRUE, NoExif, MTime(Date2)) ) @@
    ( join(Src1, "a_1.jpg")   :> File("s3", TRUE, TRUE, ExifWith(ZeroStamp), MTime(Date2)) ) @@
    ( join(Src2, "b.PNG")    :> File("s4", TRUE, TRUE, NoExif, MTime(Date1)) ) @@
    ( join(Src1, "c.gif")    :> File("s5", FALSE, TRUE, NoExif, MTime(Date2)) )

SourcePaths == DOMAIN SourceFiles

\* a file of the source tree that is no image
OtherFiles ==
    ( join(Src, "notes.txt") :> File("n", FALSE, TRUE, NoExif, MTime(Date1)) )

\* Files a previous run or the user may have left in the destination.
\* (one was last modified on the day of its folder, the other was not)
OldFile(p) == File("old", TRUE, TRUE, NoExif,
                   IF p.file = "a.jpg" THEN MTime(Date1) ELSE MTime(Date2))
Day2 == Out \o <<ToString(Date2.year), Pad2(Date2.month), Pad2(Date2.day)>>
FlatLeftovers == { join(Out, "a.jpg"), join(Out, "a_1.jpg") }
DateLeftovers == { join(Day2, "a.jpg"), join(Day2, "a_1.jpg") }
\* a regular file that has the name of a year folder
YearFile == join(Out, ToString(Date2.year))

\* what shutil.copy2 leaves at the destination when it fails half-way: the
\* first part of the source, last modified at the time of the failure. With
\* the header intact it still opens as an image and has the EXIF mapping of
\* the source; cut earlier it does not decode.
Now == [year |-> 2024, month |-> 2, day |-> 29]
Fragment(source, header_intact) ==
    IF header_intact
    THEN File("fragment", source.decodable, source.exif_ok, source.exif, MTime(Now))
    ELSE File("fragment", FALSE, TRUE, NoExif, MTime(Now))

\* every directory on the way down to dir, dir included (os.makedirs)
Ancestors(dir) == { SubSeq(dir, 1, n) : n \in 1..Len(dir) }

\* dir is top or lies below it
IsUnder(dir, top) == Len(top) <= Len(dir) /\ SubSeq(dir, 1, Len(top)) = top

\* ------------------------------------------------------------ search_images
image_extensions == {".jpg", ".jpeg", ".png", ".gif"}

\* str.lower() of a file name: every cased letter becomes its lower-case
\* letter. The names here are ASCII, where those are the letters A to Z.
UpperCase == "ABCDEFGHIJKLMNOPQRSTUVWXYZ"
LowerCase == "abcdefghijklmnopqrstuvwxyz"
LowerOf ==
    [c \in { CharAt(UpperCase, n) : n \in 1..Len(UpperCase) } |->
        CharAt(LowerCase, CHOOSE n \in 1..Len(UpperCase) : CharAt(UpperCase, n) = c)]
RECURSIVE lower_from(_, _)
lower_from(s, k) ==
    IF k > Len(s) THEN ""
    ELSE (IF CharAt(s, k) \in DOMAIN LowerOf THEN LowerOf[CharAt(s, k)] ELSE CharAt(s, k))
         \o lower_from(s, k + 1)
lower(s) == lower_from(s, 1)

\* str.endswith(suffix)
endswith(s, suffix) ==
    Len(s) >= Len(suffix) /\ From(s, Len(s) - Len(suffix) + 1) = suffix

\* file.lower().endswith(image_extensions): the end of the whole lower-cased
\* file name is tested
is_image(filename) ==
    LET lowered == lower(filename)
    IN \E ext \in image_extensions : endswith(lowered, ext)

\* the orders in which a directory listing may give the members of S
RECURSIVE Listings(_)
Listings(S) ==
    IF S = {} THEN {<<>>}
    ELSE UNION { { <<x>> \o rest : rest \in Listings(S \ {x}) } : x \in S }

\* os.walk(top), top-down: the files of top, then each sub-directory in turn;
\* the order inside one directory is the file system's and is not defined
RECURSIVE walk(_, _)
RECURSIVE walk_subdirs(_, _)
walk(paths, top) ==
    LET files == { p \in paths : p.dir = top }
        below == { p \in paths : IsUnder(p.dir, top) /\ Len(p.dir) > Len(top) }
        subdirs == { SubSeq(p.dir, 1, Len(top) + 1) : p \in below }
    IN { own \o rest : own \in Listings(files), rest \in walk_subdirs(paths, subdirs) }
walk_subdirs(paths, subdirs) ==
    IF subdirs = {} THEN {<<>>}
    ELSE UNION { { w \o rest : w \in walk(paths, d),
                               rest \in walk_subdirs(paths, subdirs \ {d}) } : d \in subdirs }

\* position of path in list, 0 if it is not there
RECURSIVE IndexFrom(_, _, _)
IndexFrom(list, path, n) ==
    IF n > Len(list) THEN 0
    ELSE IF list[n] = path THEN n ELSE IndexFrom(list, path, n + 1)

\* a directory lists the entries that stay in the order it listed them
\* before: two paths of the earlier list come in the same order in the later
KeepsOrder(earlier, later) ==
    \A a, b \in 1..Len(later) :
        (a < b /\ IndexFrom(earlier, later[a], 1) > 0 /\ IndexFrom(earlier, later[b], 1) > 0)
            => IndexFrom(earlier, later[a], 1) < IndexFrom(earlier, later[b], 1)

\* the image files search_images(directory) looks at
ImagesUnder(fsys, directory) ==
    { p \in DOMAIN fsys : IsUnder(p.dir, directory) /\ is_image(p.file) }

\* the lists search_images(directory) may return
search_images(fsys, directory) == walk(ImagesUnder(fsys, directory), directory)

\* A bound on the inputs of the two selections. The dialogs and the entries
\* take any directory and any text; here the input is the source tree, one
\* of its folders or the directory that holds everything, and the output is
\* the destination folder (which may not exist yet) or the source tree. So
\* the input lies apart from the output (Src, Out), strictly inside it
\* (Src1, Src), is equal to it (Src, Src) or contains it (Root, Out).
InputChoices == {Src, Src1, Root}
OutputChoices == {Out, Src}

\* ----------------------------------------------------------------- state
VARIABLES
    variant,        \* "picman" or "v3": which script runs
    gui,            \* self.input_directory, self.output_directory, self.simple_copy
    simple_copy,    \* copy_images_by_date's flag (picman.py) in the current run
    output_directory, \* copy_images_by_date's destination root in the current run
    images,         \* the input list of the current run
    fs,             \* the file system: path -> file
    fs0,            \* the file system when the current run started
    dirs,           \* directories that exist
    dirs0,          \* the directories when the current run started
    pc,             \* "idle", "flat", "scan", "copy", "done", "raised", "closed"
    i,              \* index of the enumerate() loops (1-based)
    file_metadata,  \* the grouping built by the scan loop
    j,              \* position of the copy loops in file_metadata
    progress,       \* the calls made to progress_callback in this run
    ops,            \* file-system operations of this run, in order
    resolved,       \* what get_image_metadata returned, per record of this run
    run,            \* number of runs started so far
    faults,         \* number of calls that failed on the environment's account
    prev            \* what the run before left: its list, how it ended, and
                    \* the number of files under output_directory around it

vars == <<variant, gui, simple_copy, output_directory, images, fs, fs0, dirs, dirs0, pc, i,
          file_metadata, j, progress, ops, resolved, run, faults, prev>>

\* str(year) / f"{month:02d}" / f"{day:02d}" under output_directory
year_folder_of(year) == Append(output_directory, ToString(year))
month_folder_of(year, month) == Append(year_folder_of(year), Pad2(month))
day_folder_of(year, month, day) == Append(month_folder_of(year, month), Pad2(day))

NoRun == [images |-> <<>>, output |-> Unset, ended |-> "none", before |-> 0, after |-> 0]

\* the initial contents of the destination: nothing, or leftovers of one kind
LeftoverSets == (SUBSET FlatLeftovers) \cup (SUBSET DateLeftovers) \cup {{YearFile}}

\* the files and directories the program finds, and nothing running
InitWorld ==
    /\ \E srcs \in SUBSET SourcePaths : \E left \in LeftoverSets :
          /\ Cardinality(srcs) + Cardinality(left) <= MaxImages
          /\ fs = [p \in srcs |-> SourceFiles[p]] @@ OtherFiles @@ [p \in left |-> OldFile(p)]
          /\ \E made \in SUBSET {Out} :
                /\ left # {} => made = {Out}
                /\ dirs = {Root, Src, Src1, Src2} \cup made
                            \cup UNION { Ancestors(p.dir) : p \in left }
    /\ simple_copy = FALSE
    /\ output_directory = Unset
    /\ images = <<>>
    /\ fs0 = fs
    /\ dirs0 = dirs
    /\ pc = "idle"
    /\ i = 1
    /\ file_metadata = <<>>
    /\ j = 1
    /\ progress = <<>>
    /\ ops = <<>>
    /\ resolved = <<>>
    /\ run = 0
    /\ faults = 0
    /\ prev = NoRun

\* ImageOrganizerGUI.__init__: nothing selected
Init ==
    /\ variant \in {"picman", "v3"}
    /\ gui = [input_directory |-> Unset, output_directory |-> Unset, simple_copy |-> FALSE]
    /\ InitWorld

\* --------------------------------------------------------------- the GUI
\* select_input_directory, or typing into the entry next to it: a cancelled
\* dialog changes nothing. A selection that no run within MaxRuns would read
\* is left out.
select_input_directory ==
    /\ pc = "idle"
    /\ run < MaxRuns
    /\ \E directory \in InputChoices :
          /\ directory # gui.input_directory
          /\ gui' = [gui EXCEPT !.input_directory = directory]
    /\ UNCHANGED <<variant, simple_copy, output_directory, images, fs, fs0, dirs, dirs0, pc, i,
                   file_metadata, j, progress, ops, resolved, run, prev, faults>>

\* select_output_directory, or typing into the entry next to it
select_output_directory ==
    /\ pc = "idle"
    /\ run < MaxRuns
    /\ \E directory \in OutputChoices :
          /\ directory # gui.output_directory
          /\ gui' = [gui EXCEPT !.output_directory = directory]
    /\ UNCHANGED <<variant, simple_copy, output_directory, images, fs, fs0, dirs, dirs0, pc, i,
                   file_metadata, j, progress, ops, resolved, run, prev, faults>>

\* the "Simple copy" check box of picman.py is clicked
toggle_simple_copy ==
    /\ pc = "idle"
    /\ run < MaxRuns
    /\ variant = "picman"
    /\ gui' = [gui EXCEPT !.simple_copy = ~gui.simple_copy]
    /\ UNCHANGED <<variant, simple_copy, output_directory, images, fs, fs0, dirs, dirs0, pc, i,
                   file_metadata, j, progress, ops, resolved, run, prev, faults>>

\* organize_images up to the first statement of copy_images_by_date; without
\* both directories it shows an error and returns, which changes nothing.
\* Trees of more than MaxImages image files are left out.
organize_images ==
    /\ pc = "idle"
    /\ run < MaxRuns
    /\ gui.input_directory # Unset
    /\ gui.output_directory # Unset
    /\ Cardinality(ImagesUnder(fs, gui.input_directory)) <= MaxImages
    /\ images' \in { list \in search_images(fs, gui.input_directory) :
                        KeepsOrder(prev.images, list) }
    /\ simple_copy' = gui.simple_copy
    /\ output_directory' = gui.output_directory
    /\ pc' = IF gui.simple_copy THEN "flat" ELSE "scan"
    /\ run' = run + 1
    /\ fs0' = fs
    /\ dirs0' = dirs
    /\ UNCHANGED <<variant, gui, fs, dirs, i, file_metadata, j, progress, ops,
                   resolved, prev, faults>>

\* files under output_directory
DestFiles(fsys) == { p \in DOMAIN fsys : IsUnder(p.dir, output_directory) }

\* copy_images_by_date has returned or raised: organize_images ends, its
\* locals are gone and the main loop waits for the next event
EndOfRun(ended) ==
    /\ pc' = "idle"
    /\ prev' = [images |-> images, output |-> output_directory, ended |-> ended,
                before |-> Cardinality(DestFiles(fs0)),
                after |-> Cardinality(DestFiles(fs))]
    /\ images' = <<>>
    /\ simple_copy' = FALSE
    /\ output_directory' = Unset
    /\ fs0' = fs
    /\ dirs0' = dirs
    /\ i' = 1
    /\ j' = 1
    /\ file_metadata' = <<>>
    /\ progress' = <<>>
    /\ ops' = <<>>
    /\ resolved' = <<>>
    /\ UNCHANGED <<variant, gui, fs, dirs, run, faults>>

\* organize_images after copy_images_by_date returned
organize_images_return ==
    /\ pc = "done"
    /\ EndOfRun("done")

\* the exception of a failed copy leaves organize_images; Tk reports it and
\* the window stays open
report_callback_exception ==
    /\ pc = "raised"
    /\ EndOfRun("raised")

\* the Exit button
destroy ==
    /\ pc = "idle"
    /\ pc' = "closed"
    /\ gui' = [input_directory |-> Unset, output_directory |-> Unset, simple_copy |-> FALSE]
    /\ prev' = NoRun
    /\ UNCHANGED <<variant, simple_copy, output_directory, images, fs, fs0, dirs, dirs0, i,
                   file_metadata, j, progress, ops, resolved, run, faults>>

\* ------------------------------------------------------------ shutil.copy2
\* the file system after shutil.copy2(src, dst) succeeded
copy2(fsys, src, dst) == [p \in DOMAIN fsys \cup {dst} |-> IF p = dst THEN fsys[src] ELSE fsys[p]]

\* the file system after shutil.copy2(src, dst) failed while writing dst:
\* whatever was at dst is gone, a fragment of src is left
copy2_truncated(fsys, src, dst, header_intact) ==
    [p \in DOMAIN fsys \cup {dst} |->
        IF p = dst THEN Fragment(fsys[src], header_intact) ELSE fsys[p]]

\* the file system after shutil.copy2(src, dst) wrote all of dst and failed to
\* carry over the times of src (copystat, os.utime): dst is complete, last
\* modified at the time of the copy
copy2_unstamped(fsys, src, dst) ==
    [p \in DOMAIN fsys \cup {dst} |->
        IF p = dst THEN [fsys[src] EXCEPT !.mtime = MTime(Now)] ELSE fsys[p]]

\* shutil.copy2 raises before it opens dst (SameFileError, missing source or
\* directory)
copy2_must_raise(fsys, ds, src, dst) == src = dst \/ ~exists(fsys, src) \/ dst.dir \notin ds

\* How a call of shutil.copy2 may end. It returns with the copy made
\* ("copied"), or it raises:
\*   "raised"     before dst was opened: dst is as it was
\*   "truncated"  while writing dst (disk full, I/O error): a fragment that
\*                does not decode is left
\*   "header"     while writing dst, the header already written: a fragment
\*                that opens as an image is left
\*   "unstamped"  in copystat before the times were set: dst is complete
\*   "stamped"    in copystat after the times were set (extended attributes,
\*                mode, flags): dst is complete and has the times of src
copy2_outcomes(fsys, ds, src, dst) ==
    IF copy2_must_raise(fsys, ds, src, dst) THEN {"raised"}
    ELSE {"copied", "raised", "truncated", "header", "unstamped", "stamped"}

\* the call failed although src, dst and the directory of dst let it succeed
copy2_fault(fsys, ds, src, dst, outcome) ==
    outcome # "copied" /\ ~copy2_must_raise(fsys, ds, src, dst)

\* the file system a call of shutil.copy2 that ended with outcome leaves
copy2_result(fsys, src, dst, outcome) ==
    IF outcome \in {"copied", "stamped"} THEN copy2(fsys, src, dst)
    ELSE IF outcome = "truncated" THEN copy2_truncated(fsys, src, dst, FALSE)
    ELSE IF outcome = "header" THEN copy2_truncated(fsys, src, dst, TRUE)
    ELSE IF outcome = "unstamped" THEN copy2_unstamped(fsys, src, dst)
    ELSE fsys

CopyOp(src, dst) ==
    [op |-> "copy", src |-> src, dst |-> dst, existed |-> exists(fs, dst),
     calls |-> Len(progress)]
RaiseOp(src, dst) ==
    [op |-> "raise", src |-> src, dst |-> dst, existed |-> exists(fs, dst),
     calls |-> Len(progress)]
MkdirOp(ds, dir) ==
    [op |-> "makedirs", src |-> join(dir, ""), dst |-> join(dir, ""),
     existed |-> dir \in ds, calls |-> Len(progress)]

\* -------------------------------------------------------------- os.makedirs
\* the path of the regular file that has the name of directory dir
AsFile(dir) == join(SubSeq(dir, 1, Len(dir) - 1), dir[Len(dir)])

\* a regular file lies at folder or on the way down to it: mkdir fails with
\* FileExistsError or NotADirectoryError
FileInTheWay(fsys, folder) == \E a \in Ancestors(folder) : exists(fsys, AsFile(a))

\* How a call of os.makedirs(folder, exist_ok=True) may end. The missing
\* directories are made from the top down; the call returns when all are
\* there, or raises at one of them (permissions, read-only or full file
\* system) with those above it made.
makedirs_outcomes(fsys, ds, folder) ==
    LET missing == { a \in Ancestors(folder) : a \notin ds }
        first(k) == { a \in missing : Len(a) - (Len(folder) - Cardinality(missing)) <= k }
    IN IF FileInTheWay(fsys, folder)
       THEN { [dirs |-> ds, raised |-> TRUE, fault |-> FALSE] }
       ELSE { [dirs |-> ds \cup missing, raised |-> FALSE, fault |-> FALSE] }
            \cup { [dirs |-> ds \cup first(k), raised |-> TRUE, fault |-> TRUE] :
                     k \in 0..(IF missing = {} THEN 0 ELSE Cardinality(missing) - 1) }

\* the calls of os.makedirs on folders, one after the other, up to the first
\* that raises
RECURSIVE makedirs_each(_, _, _)
makedirs_each(fsys, ds, folders) ==
    IF folders = <<>>
    THEN { [dirs |-> ds, raised |-> FALSE, fault |-> FALSE, ops |-> <<>>] }
    ELSE UNION {
           IF o.raised
           THEN { [dirs |-> o.dirs, raised |-> TRUE, fault |-> o.fault,
                   ops |-> <<RaiseOp(join(Head(folders), ""),
                                     join(Head(folders), ""))>>] }
           ELSE { [dirs |-> r.dirs, raised |-> r.raised, fault |-> r.fault,
                   ops |-> <<MkdirOp(ds, Head(folders))>> \o r.ops] :
                    r \in makedirs_each(fsys, o.dirs, Tail(folders)) }
           : o \in makedirs_outcomes(fsys, ds, Head(folders)) }

\* --------------------------------------------------- picman.py, flat mode
\* while os.path.exists(destination_path): destination_path = ...; counter += 1
RECURSIVE FlatProbe(_, _, _, _, _)
FlatProbe(fsys, name, ext, destination_path, counter) ==
    IF exists(fsys, destination_path)
    THEN FlatProbe(fsys, name, ext,
                   join(output_directory, Suffixed(name, counter, ext)), counter + 1)
    ELSE destination_path

\* a slip that would skip the duplicate handling
FlatDestination_NoProbe(fsys, filename) == join(output_directory, filename)

\* lines 68-77: the path a flat copy of filename is written to
FlatDestination(fsys, filename) ==
    IF exists(fsys, join(output_directory, filename))
    THEN FlatProbe(fsys, splitext(filename)[1], splitext(filename)[2],
                   join(output_directory, filename), 1)
    ELSE join(output_directory, filename)

\* one iteration of the flat loop. Behaviours with more than MaxFaults
\* failures on the environment's account are left out.
FlatCopy ==
    /\ pc = "flat"
    /\ i <= Len(images)
    /\ LET image_path == images[i]
           destination_path == FlatDestination(fs, basename(image_path))
       IN \E outcome \in copy2_outcomes(fs, dirs, image_path, destination_path) :
            /\ fs' = copy2_result(fs, image_path, destination_path, outcome)
            /\ IF copy2_fault(fs, dirs, image_path, destination_path, outcome)
               THEN faults < MaxFaults /\ faults' = faults + 1
               ELSE faults' = faults
            /\ IF outcome = "copied"
               THEN /\ ops' = Append(ops, CopyOp(image_path, destination_path))
                    /\ progress' = Append(progress, <<i, Len(images)>>)
                    /\ i' = i + 1
                    /\ pc' = pc
               ELSE /\ pc' = "raised"
                    /\ ops' = Append(ops, RaiseOp(image_path, destination_path))
                    /\ UNCHANGED <<progress, i>>
    /\ UNCHANGED <<variant, gui, simple_copy, output_directory, images, fs0, dirs, dirs0, file_metadata,
                   j, run, resolved, prev>>

\* the loop is exhausted: return
FlatReturn ==
    /\ pc = "flat"
    /\ i > Len(images)
    /\ pc' = "done"
    /\ UNCHANGED <<variant, gui, simple_copy, output_directory, images, fs, fs0, dirs, dirs0, i,
                   file_metadata, j, progress, ops, run, resolved, prev, faults>>


\* ------------------------------------------------- dicts kept in insertion order
\* position of the entry with key k in dict d (a sequence of [key, val]), 0 if absent
RECURSIVE KeyIndexFrom(_, _, _)
KeyIndexFrom(d, k, n) ==
    IF n > Len(d) THEN 0
    ELSE IF d[n].key = k THEN n ELSE KeyIndexFrom(d, k, n + 1)
KeyIndex(d, k) == KeyIndexFrom(d, k, 1)

\* defaultdict access d[k]: a missing key is inserted, last, with the default
WithDefault(d, k, default) ==
    IF KeyIndex(d, k) = 0 THEN Append(d, [key |-> k, val |-> default]) ELSE d
Get(d, k) == d[KeyIndex(d, k)].val
\* d[k] = v for a key that is present: the entry keeps its position
Put(d, k, v) == [d EXCEPT ![KeyIndex(d, k)] = [key |-> k, val |-> v]]

\* ------------------------------------------- picman.py, date-hierarchy mode
\* lines 92-94: file_metadata[date_taken][filename] is read, then overwritten
PicmanRecord(fm, date_taken, filename, image_path) ==
    LET fm1 == WithDefault(fm, date_taken, <<>>)
        byname == WithDefault(Get(fm1, date_taken), filename,
                              [source_path |-> None, creation_order |-> 0])
        entry == Get(byname, filename)
    IN IF entry.source_path = None \/ entry.creation_order > 0
       THEN Put(fm1, date_taken,
                Put(byname, filename,
                    [source_path |-> image_path,
                     creation_order |-> entry.creation_order + 1]))
       ELSE Put(fm1, date_taken, byname)

\* lines 97-100: the (date, filename, source_path, creation_order) items in
\* the order the nested loops visit them
RECURSIVE PicmanPlan(_)
PicmanPlan(fm) ==
    IF fm = <<>> THEN <<>>
    ELSE [n \in 1..Len(Head(fm).val) |->
            [date |-> Head(fm).key,
             filename |-> Head(fm).val[n].key,
             source_path |-> Head(fm).val[n].val.source_path,
             creation_order |-> Head(fm).val[n].val.creation_order]]
         \o PicmanPlan(Tail(fm))

\* line 98
PicmanDateFolder(date) == day_folder_of(date.year, date.month, date.day)

\* lines 101-105
PicmanDestination(date_folder, filename, creation_order) ==
    IF creation_order > 1
    THEN join(date_folder, CopyNamed(splitext(filename)[1], splitext(filename)[2]))
    ELSE join(date_folder, filename)

\* --------------------------------------------------- image-organizer-v3.py
\* line 68: file_metadata[year][month][day].append((image_path, filename))
V3Record(fm, date_taken, filename, image_path) ==
    LET fm1 == WithDefault(fm, date_taken.year, <<>>)
        months == WithDefault(Get(fm1, date_taken.year), date_taken.month, <<>>)
        days == WithDefault(Get(months, date_taken.month), date_taken.day, <<>>)
        files == Append(Get(days, date_taken.day),
                        [source_path |-> image_path, filename |-> filename])
    IN Put(fm1, date_taken.year,
           Put(months, date_taken.month, Put(days, date_taken.day, files)))

\* lines 71-80: the (year, month, day, source_path, filename) items in the
\* order the nested loops visit them
RECURSIVE V3Days(_, _, _)
V3Days(year, month, day_data) ==
    IF day_data = <<>> THEN <<>>
    ELSE [n \in 1..Len(Head(day_data).val) |->
            [year |-> year, month |-> month, day |-> Head(day_data).key,
             source_path |-> Head(day_data).val[n].source_path,
             filename |-> Head(day_data).val[n].filename]]
         \o V3Days(year, month, Tail(day_data))
RECURSIVE V3Months(_, _)
V3Months(year, month_data) ==
    IF month_data = <<>> THEN <<>>
    ELSE V3Days(year, Head(month_data).key, Head(month_data).val)
         \o V3Months(year, Tail(month_data))
RECURSIVE V3Plan(_)
V3Plan(fm) ==
    IF fm = <<>> THEN <<>>
    ELSE V3Months(Head(fm).key, Head(fm).val) \o V3Plan(Tail(fm))

\* lines 85-87: the first i with no file name_i.ext in day_folder
RECURSIVE V3Probe(_, _, _, _, _)
V3Probe(fsys, day_folder, name, ext, n) ==
    IF exists(fsys, join(day_folder, Suffixed(name, n, ext)))
    THEN V3Probe(fsys, day_folder, name, ext, n + 1)
    ELSE n

\* a slip that would write to the base name whatever is there
V3Destination_Overwrite(fsys, day_folder, filename) == join(day_folder, filename)

\* lines 81-88
V3Destination(fsys, day_folder, filename) ==
    IF exists(fsys, join(day_folder, filename))
    THEN join(day_folder,
              Suffixed(splitext(filename)[1],
                       V3Probe(fsys, day_folder, splitext(filename)[1],
                               splitext(filename)[2], 1),
                       splitext(filename)[2]))
    ELSE join(day_folder, filename)

\* ------------------------------------------------ the scan loop (both scripts)
\* picman.py lines 86-95, image-organizer-v3.py lines 62-69
Scan ==
    /\ pc = "scan"
    /\ i <= Len(images)
    /\ LET image_path == images[i]
           meta == get_image_metadata(fs[image_path], image_path)
           date_taken == meta[1]
           filename == meta[2]
       IN file_metadata' =
            IF date_taken # None
            THEN IF variant = "picman"
                 THEN PicmanRecord(file_metadata, date_taken, filename, image_path)
                 ELSE V3Record(file_metadata, date_taken, filename, image_path)
            ELSE file_metadata
    /\ resolved' = Append(resolved, get_image_metadata(fs[images[i]], images[i]))
    /\ progress' = Append(progress, <<i, Len(images)>>)
    /\ i' = i + 1
    /\ UNCHANGED <<variant, gui, simple_copy, output_directory, images, fs, fs0, dirs, dirs0, pc, j,
                   ops, run, prev, faults>>

\* the scan loop is exhausted: the copy loops start
ScanEnd ==
    /\ pc = "scan"
    /\ i > Len(images)
    /\ pc' = "copy"
    /\ j' = 1
    /\ UNCHANGED <<variant, gui, simple_copy, output_directory, images, fs, fs0, dirs, dirs0, i,
                   file_metadata, progress, ops, run, resolved, prev, faults>>

\* os.makedirs(folder, exist_ok=True) for each folder the loops enter at this
\* file, then the copy of the file. Behaviours with more than MaxFaults
\* failures on the environment's account are left out.
MakeAndCopy(folders, source_path, destination_path) ==
    \E made \in makedirs_each(fs, dirs, folders) :
       /\ dirs' = made.dirs
       /\ IF made.raised
          THEN /\ pc' = "raised"
               /\ ops' = ops \o made.ops
               /\ IF made.fault
                  THEN faults < MaxFaults /\ faults' = faults + 1
                  ELSE faults' = faults
               /\ UNCHANGED <<fs, j>>
          ELSE \E outcome \in copy2_outcomes(fs, made.dirs, source_path, destination_path) :
                 /\ fs' = copy2_result(fs, source_path, destination_path, outcome)
                 /\ IF copy2_fault(fs, made.dirs, source_path, destination_path, outcome)
                    THEN faults < MaxFaults /\ faults' = faults + 1
                    ELSE faults' = faults
                 /\ IF outcome = "copied"
                    THEN /\ ops' = ops \o made.ops \o <<CopyOp(source_path, destination_path)>>
                         /\ j' = j + 1
                         /\ pc' = pc
                    ELSE /\ pc' = "raised"
                         /\ ops' = ops \o made.ops \o <<RaiseOp(source_path, destination_path)>>
                         /\ UNCHANGED j

\* picman.py lines 97-107, one file; line 99 runs when the file is the first
\* of its date
PicmanCopy ==
    /\ pc = "copy"
    /\ variant = "picman"
    /\ j <= Len(PicmanPlan(file_metadata))
    /\ LET plan == PicmanPlan(file_metadata)
           item == plan[j]
           date_folder == PicmanDateFolder(item.date)
           entered == j = 1 \/ plan[j - 1].date # item.date
       IN MakeAndCopy(IF entered THEN <<date_folder>> ELSE <<>>, item.source_path,
                      PicmanDestination(date_folder, item.filename, item.creation_order))
    /\ UNCHANGED <<variant, gui, simple_copy, output_directory, images, fs0, dirs0, i, file_metadata,
                   progress, run, resolved, prev>>

\* image-organizer-v3.py lines 71-90, one file; lines 73, 76 and 79 run when
\* the file is the first of its year, month, day
V3Copy ==
    /\ pc = "copy"
    /\ variant = "v3"
    /\ j <= Len(V3Plan(file_metadata))
    /\ LET plan == V3Plan(file_metadata)
           item == plan[j]
           year_folder == year_folder_of(item.year)
           month_folder == month_folder_of(item.year, item.month)
           day_folder == day_folder_of(item.year, item.month, item.day)
           new_year == j = 1 \/ plan[j - 1].year # item.year
           new_month == new_year \/ plan[j - 1].month # item.month
           new_day == new_month \/ plan[j - 1].day # item.day
       IN MakeAndCopy((IF new_year THEN <<year_folder>> ELSE <<>>)
                          \o (IF new_month THEN <<month_folder>> ELSE <<>>)
                          \o (IF new_day THEN <<day_folder>> ELSE <<>>),
                      item.source_path,
                      V3Destination(fs, day_folder, item.filename))
    /\ UNCHANGED <<variant, gui, simple_copy, output_directory, images, fs0, dirs0, i, file_metadata,
                   progress, run, resolved, prev>>

\* the copy loops are exhausted: copy_images_by_date returns
CopyEnd ==
    /\ pc = "copy"
    /\ j > Len(IF variant = "picman" THEN PicmanPlan(file_metadata)
               ELSE V3Plan(file_metadata))
    /\ pc' = "done"
    /\ UNCHANGED <<variant, gui, simple_copy, output_directory, images, fs, fs0, dirs, dirs0, i,
                   file_metadata, j, progress, ops, run, resolved, prev, faults>>

Next ==
    \/ select_input_directory
    \/ select_output_directory
    \/ toggle_simple_copy
    \/ organize_images
    \/ FlatCopy
    \/ FlatReturn
    \/ Scan
    \/ ScanEnd
    \/ PicmanCopy
    \/ V3Copy
    \/ CopyEnd
    \/ organize_images_return
    \/ report_callback_exception
    \/ destroy

Spec == Init /\ [][Next]_vars

TypeOK ==
    /\ variant \in {"picman", "v3"}
    /\ pc \in {"idle", "flat", "scan", "copy", "done", "raised", "closed"}
    /\ run \in 0..MaxRuns
    /\ faults \in 0..MaxFaults
    /\ i \in 1..(Len(images) + 1)
    /\ Len(images) <= MaxImages
    /\ variant = "v3" => ~simple_copy /\ ~gui.simple_copy


\* ------------------------------------- get_image_metadata on its own inputs
MetaStamps ==
    { WellFormedStamp,
      Stamp(2021, 7, 1, 0, 0, 0),
      Stamp(2020, 2, 29, 23, 59, 59),
      Stamp(2021, 2, 29, 12, 0, 0),
      Stamp(2020, 13, 1, 12, 0, 0),
      Stamp(2020, 3, 32, 12, 0, 0),
      Stamp(2020, 3, 5, 24, 0, 0),
      Stamp(2020, 3, 5, 10, 60, 0),
      Stamp(2020, 3, 5, 10, 30, 60),
      Stamp(2020, 3, 5, 10, 30, 61),
      Stamp(0, 1, 1, 0, 0, 0),
      \* a tab, a vertical tab, a no-break space, two blanks, no blank
      Joined(Dec4(2020), Dec2(3), Dec2(5), <<9>>, Dec2(10), Dec2(30), Dec2(0)),
      Joined(Dec4(2020), Dec2(3), Dec2(5), <<11>>, Dec2(10), Dec2(30), Dec2(0)),
      Joined(Dec4(2020), Dec2(3), Dec2(5), <<160>>, Dec2(10), Dec2(30), Dec2(0)),
      Joined(Dec4(2020), Dec2(3), Dec2(5), <<Blank, Blank>>, Dec2(10), Dec2(30), Dec2(0)),
      Joined(Dec4(2020), Dec2(3), Dec2(5), <<>>, Dec2(10), Dec2(30), Dec2(0)),
      \* "2020:03: 5 10:30:00", "2020:3:5 1:2:3", "2020:03:\t5 10:30:00"
      Joined(Dec4(2020), Dec2(3), <<Blank, Digit(5)>>, <<Blank>>, Dec2(10), Dec2(30), Dec2(0)),
      Joined(Dec4(2020), <<Digit(3)>>, <<Digit(5)>>, <<Blank>>, <<Digit(1)>>, <<Digit(2)>>, <<Digit(3)>>),
      Joined(Dec4(2020), Dec2(3), <<9, Digit(5)>>, <<Blank>>, Dec2(10), Dec2(30), Dec2(0)),
      \* "20:03:05 10:30:00", "02020:03:05 10:30:00", "2020:003:05 10:30:00"
      Joined(Dec2(20), Dec2(3), Dec2(5), <<Blank>>, Dec2(10), Dec2(30), Dec2(0)),
      Joined(<<Digit(0)>> \o Dec4(2020), Dec2(3), Dec2(5), <<Blank>>, Dec2(10), Dec2(30), Dec2(0)),
      Joined(Dec4(2020), <<Digit(0)>> \o Dec2(3), Dec2(5), <<Blank>>, Dec2(10), Dec2(30), Dec2(0)),
      \* "2020:03:05 10:30:075", "2020:03:05 10:30:00\n"
      Joined(Dec4(2020), Dec2(3), Dec2(5), <<Blank>>, Dec2(10), Dec2(30), <<Digit(0)>> \o Dec2(75)),
      Joined(Dec4(2020), Dec2(3), Dec2(5), <<Blank>>, Dec2(10), Dec2(30), Dec2(0) \o <<10>>),
      \* Arabic-Indic digits: the year, the second digit of the day, the month
      Joined(<<1634, 1632, 1634, 1632>>, Dec2(3), Dec2(5), <<Blank>>, Dec2(10), Dec2(30), Dec2(0)),
      Joined(Dec4(2020), Dec2(3), <<Digit(2), 1637>>, <<Blank>>, Dec2(10), Dec2(30), Dec2(0)),
      Joined(Dec4(2020), <<1635>>, Dec2(5), <<Blank>>, Dec2(10), Dec2(30), Dec2(0)),
      \* b"2020:03:05 10:30:00"
      Bytes(WellFormedStamp.chars) }
    \cup MalformedStamps
ExifMakeOnly == [k \in {IntKey(271)} |-> ZeroStamp]
MetaExifs == {NoExif, ExifMakeOnly} \cup { ExifWith(st) : st \in MetaStamps }
MetaFiles ==
    { File("m", dec, ok, ex, MTime(d)) :
        dec \in BOOLEAN, ok \in BOOLEAN, ex \in MetaExifs, d \in {Date1, Date2} }

InitMeta ==
    /\ variant \in {"picman", "v3"}
    /\ simple_copy = FALSE
    /\ output_directory = Out
    /\ gui = [input_directory |-> Src, output_directory |-> Out,
              simple_copy |-> FALSE]
    /\ \E p \in {join(Src1, "a.jpg"), join(Src2, "b.PNG")} :
       \E f \in MetaFiles :
          /\ images = <<p>>
          /\ fs = (p :> f)
    /\ fs0 = fs
    /\ dirs = {Root, Src, Src1, Src2, Out}
    /\ dirs0 = dirs
    /\ prev = NoRun
    /\ pc = "meta"
    /\ i = 1
    /\ file_metadata = <<>>
    /\ j = 1
    /\ progress = <<>>
    /\ ops = <<>>
    /\ resolved = <<>>
    /\ run = 1
    /\ faults = 0

\* one call of get_image_metadata(image_path)
Resolve ==
    /\ pc = "meta"
    /\ resolved' = Append(resolved, get_image_metadata(fs[images[i]], images[i]))
    /\ pc' = "resolved"
    /\ UNCHANGED <<variant, gui, simple_copy, output_directory, images, fs, fs0, dirs, dirs0, i,
                   file_metadata, j, progress, ops, run, prev, faults>>

NextMeta == Resolve

SpecMeta == InitMeta /\ [][NextMeta]_vars

\* ------------------------------------------------------------ vocabulary
\* copy_images_by_date is running or has just ended
InRun == pc \in {"flat", "scan", "copy", "done", "raised"}
PicmanDate == variant = "picman" /\ ~simple_copy /\ InRun
PicmanFlat == variant = "picman" /\ simple_copy /\ InRun

\* the date get_image_metadata gives the n-th input record
ResolvedDate(n) == get_image_metadata(fs0[images[n]], images[n])[1]
ResolvedCount == Cardinality({ n \in 1..Len(images) : ResolvedDate(n) # None })

IsCopy(o) == o.op = "copy"
Copies == SelectSeq(ops, IsCopy)
IsRaise(o) == o.op = "raise"

NoCopyOntoExisting == \A n \in 1..Len(ops) : ops[n].op = "copy" => ~ops[n].existed
InitialFilesIntact == \A p \in DOMAIN fs0 : p \in DOMAIN fs /\ fs[p] = fs0[p]


\* ---------------------------------------------------------------- claims

\* C1 (as claimed): in picman.py's date-hierarchy mode no copy is written to
\* a path that already exists, and every file present before the run keeps
\* its content.
C1_NeverOverwrites ==
    PicmanDate => NoCopyOntoExisting /\ InitialFilesIntact

\* C2 (as claimed): in picman.py's date-hierarchy mode the grouping step
\* retains every record with a resolved date, and a run without copy failure
\* into an empty destination writes as many files as there are such records.
C2_EveryResolvedRecordCopied ==
    PicmanDate =>
        /\ pc \in {"copy", "done", "raised"} =>
              Len(PicmanPlan(file_metadata)) = ResolvedCount
        /\ (pc = "done" /\ DestFiles(fs0) = {}) =>
              Cardinality(DestFiles(fs)) = ResolvedCount

\* a run of image-organizer-v3.py into an empty destination, scan finished
V3FirstRunEmptyDest ==
    /\ variant = "v3"
    /\ DestFiles(fs0) = {}
    /\ pc \in {"copy", "done", "raised"}

SameGroup(a, b) ==
    a.year = b.year /\ a.month = b.month /\ a.day = b.day /\ a.filename = b.filename
FirstInGroup(plan, k) == \A m \in 1..(k - 1) : ~SameGroup(plan[m], plan[k])
\* the earliest input path that belongs to item's (year, month, day, name) group
GroupFirstInput(item) ==
    LET members == { n \in 1..Len(images) :
                       /\ ResolvedDate(n) =
                            [year |-> item.year, month |-> item.month, day |-> item.day]
                       /\ basename(images[n]) = item.filename }
    IN images[CHOOSE n \in members : \A m \in members : n <= m]
ItemFolder(item) == day_folder_of(item.year, item.month, item.day)
IsSuffixOf(file, filename) ==
    \E n \in 1..(2 * MaxImages * MaxRuns + 2) :
        file = Suffixed(splitext(filename)[1], n, splitext(filename)[2])

\* C3 (as claimed): image-organizer-v3.py into an empty destination copies
\* the first record of every (year, month, day, base-name) group under the
\* unadorned base name, and every later record of the group under a suffixed
\* name that no other file written to that day-folder has.
C3_FirstKeepsBaseName ==
    V3FirstRunEmptyDest =>
        \A k \in 1..Len(Copies) :
            LET item == V3Plan(file_metadata)[k]
                c == Copies[k]
            IN IF FirstInGroup(V3Plan(file_metadata), k)
               THEN /\ c.src = GroupFirstInput(item)
                    /\ c.dst = join(ItemFolder(item), item.filename)
               ELSE /\ c.dst.dir = ItemFolder(item)
                    /\ IsSuffixOf(c.dst.file, item.filename)
                    /\ \A m \in 1..Len(Copies) : m # k => Copies[m].dst # c.dst

\* this run has the list of the run before, which returned
SameListAgain ==
    prev.ended = "done" /\ prev.images = images /\ prev.output = output_directory

\* C4: image-organizer-v3.py never writes onto an existing file and leaves
\* every file it finds (those of earlier runs included) as it is, so the
\* number of files under output_directory never decreases; a run that
\* returns on the list of the run before, which returned too, has added
\* exactly one renamed file per record with a resolved date, and twice the
\* first run's count is there when the first run started on an empty
\* destination.
C4_RerunAddsRenamedCopies ==
    (variant = "v3" /\ InRun) =>
        /\ NoCopyOntoExisting
        /\ InitialFilesIntact
        /\ prev.output = output_directory =>
              Cardinality(DestFiles(fs)) >= prev.after
        /\ (pc = "done" /\ SameListAgain) =>
              /\ Len(Copies) = ResolvedCount
              /\ \A k \in 1..Len(Copies) :
                    /\ Copies[k].dst.file # basename(Copies[k].src)
                    /\ IsSuffixOf(Copies[k].dst.file, basename(Copies[k].src))
              /\ Cardinality(DestFiles(fs)) =
                    Cardinality(DestFiles(fs0)) + ResolvedCount
              /\ prev.before = 0 =>
                    Cardinality(DestFiles(fs)) = 2 * prev.after

\* a second run has returned on the list of a first run that started on an
\* empty destination; the list holds two files of one name and day
C4_Witness ==
    /\ variant = "v3"
    /\ pc = "done"
    /\ SameListAgain
    /\ prev.before = 0
    /\ ResolvedCount >= 2
    /\ \E k, m \in 1..Len(Copies) :
          /\ k # m
          /\ basename(Copies[k].src) = basename(Copies[m].src)
          /\ Copies[k].dst.dir = Copies[m].dst.dir

\* C5: picman.py's flat mode, when no copy fails, adds one new file per
\* input path directly under output_directory, creates no directory, writes
\* only to names that were free, and leaves the files found there unchanged.
C5_FlatAddsOneFreshFilePerPath ==
    PicmanFlat =>
        /\ \A n \in 1..Len(ops) :
              /\ ops[n].op # "makedirs"
              /\ ops[n].op = "copy" =>
                    ~ops[n].existed /\ ops[n].dst.dir = output_directory
        /\ dirs = dirs0
        /\ InitialFilesIntact
        /\ pc = "done" =>
              /\ Len(Copies) = Len(images)
              /\ Cardinality(DOMAIN fs \ DOMAIN fs0) = Len(images)
              /\ \A p \in DOMAIN fs \ DOMAIN fs0 : p.dir = output_directory

\* a finished flat run of two or more paths in which a copy had to be renamed
\* because a file left in the destination had its name
C5_Witness ==
    /\ PicmanFlat
    /\ pc = "done"
    /\ Len(images) >= 2
    /\ DestFiles(fs0) # {}
    /\ \E n \in 1..Len(ops) :
          ops[n].op = "copy" /\ ops[n].dst.file # basename(ops[n].src)


\* C6 (as claimed): whenever copy_images_by_date has ended, the progress
\* callback has been called exactly N times, with (1, N), ..., (N, N) in
\* that order, N the length of the input list.
C6_ProgressExactlyN ==
    pc \in {"done", "raised"} =>
        progress = [k \in 1..Len(images) |-> <<k, Len(images)>>]

\* C7 (as claimed): in date-hierarchy mode a record is reported only after
\* it has been processed, so every directory creation and every copy happens
\* before the callback has reported (total, total).
C7_NothingAfterFinalProgress ==
    ~simple_copy =>
        \A n \in 1..Len(ops) :
            ops[n].op \in {"copy", "makedirs", "raise"} => ops[n].calls < Len(images)

\* C8 (as claimed): a failing copy of one file is caught at that record; the
\* exception never leaves copy_images_by_date and the remaining records are
\* still processed.
C8_CopyFailureNotFatal ==
    /\ pc # "raised"
    /\ pc = "done" =>
          \A n \in 1..Len(ops) : ops[n].op = "raise" =>
              \E m \in (n + 1)..Len(ops) : ops[m].op \in {"copy", "raise"}

\* the DateTimeOriginal entry of the EXIF mapping of file f, keyed by tag id
HasCaptureTag(f) ==
    f.decodable /\ f.exif_ok /\ IntKey(DateTimeOriginalId) \in DOMAIN f.exif
CaptureTag(f) == f.exif[IntKey(DateTimeOriginalId)]

\* C9 (as claimed): for a decodable image whose EXIF mapping holds a
\* well-formed DateTimeOriginal value, get_image_metadata returns the date of
\* that value, whatever the modification time.
C9_CaptureDateReturned ==
    \A n \in 1..Len(resolved) :
        (HasCaptureTag(fs[images[n]]) /\ strptime_ok(CaptureTag(fs[images[n]]))) =>
            resolved[n][1] = strptime_date(CaptureTag(fs[images[n]]))

\* C10: for a decodable image whose DateTimeOriginal value does not parse,
\* get_image_metadata returns the file's last-modified date, as it does when
\* the tag is missing.
C10_MalformedTagFallsBack ==
    \A n \in 1..Len(resolved) :
        (HasCaptureTag(fs[images[n]]) /\ ~strptime_ok(CaptureTag(fs[images[n]]))) =>
            resolved[n] = <<fromtimestamp_date(fs[images[n]].mtime), basename(images[n])>>

\* get_image_metadata has returned for an image with an unparsable tag
C10_Witness ==
    /\ Len(resolved) = 1
    /\ HasCaptureTag(fs[images[1]])
    /\ ~strptime_ok(CaptureTag(fs[images[1]]))
    /\ CaptureTag(fs[images[1]]).type = "str"
    /\ Len(CaptureTag(fs[images[1]]).chars) = 19
    /\ resolved[1][1] # None


\* the n-th input record does not decode as an image
Undecodable(n) == ~fs0[images[n]].decodable

\* the part of C11 about the undecodable record itself: its date is None and
\* no directory is made and no copy attempted on its behalf
UndecodableSkipped ==
    ~simple_copy =>
        /\ \A n \in 1..Len(resolved) : Undecodable(n) => resolved[n][1] = None
        /\ \A n \in 1..Len(images) : Undecodable(n) =>
              \A k \in 1..Len(ops) : ops[k].src # images[n]
        /\ (\A n \in 1..Len(images) : Undecodable(n)) => ops = <<>>

\* C11 (as claimed): in date-hierarchy mode a record that does not decode
\* gets the date None, nothing is created or written for it, and when the
\* run has returned every other record of the batch (every record with a
\* resolved date) has been copied.
C11_UndecodableSkippedOthersCopied ==
    UndecodableSkipped /\
    ((~simple_copy /\ pc = "done"
        /\ \E n \in 1..Len(images) : Undecodable(n)) =>
        \A n \in 1..Len(images) : ResolvedDate(n) # None =>
            Cardinality({ k \in 1..Len(Copies) : Copies[k].src = images[n] })
              = Cardinality({ m \in 1..Len(images) : images[m] = images[n] }))


\* C12 (as claimed): no run deletes, overwrites or otherwise changes a file
\* named in its input list, also when input paths lie in destination folders.
C12_InputFilesUntouched ==
    \A n \in 1..Len(images) :
        images[n] \in DOMAIN fs /\ fs[images[n]] = fs0[images[n]]

====
